---- MODULE Spec2Model ----
(***************************************************************************)
(* A model of the command dispatcher of rainycape/command: RunOpts and the *)
(* functions it calls (src/command.go lines 1-463, src/arguments.go,       *)
(* src/struct.go and the panic recovery wrapper).                          *)
(*                                                                         *)
(* One behaviour is one call of RunOpts.  Strings (tokens, command names,  *)
(* flag names) are sequences of one-character strings, so that the flag    *)
(* parser can look at their characters as the Go flag package does.        *)
(***************************************************************************)
EXTENDS Integers, Sequences, FiniteSets, TLC

\* ------------------------------------------------------------------ bounds
\* longest token list handed to RunOpts
MaxTokens == 3
\* longest declared Argument sequence of a command
MaxArgs == 2

\* ----------------------------------------------------------------- strings
sEmpty == <<>>
sHelp == <<"h", "e", "l", "p">>
sGreet == <<"g", "r", "e", "e", "t">>
sAda == <<"a", "d", "a">>
sDashV == <<"-", "v">>
sDashDashLoud == <<"-", "-", "l", "o", "u", "d">>
sDashDash == <<"-", "-">>
sTrue == <<"t", "r", "u", "e">>

\* the tokens a command line is made of
Tokens == {sEmpty, sHelp, sGreet, sAda, sDashV, sDashDashLoud, sDashDash}

RECURSIVE SeqsUpTo(_, _)
SeqsUpTo(S, n) ==
    IF n = 0 THEN {<<>>}
    ELSE LET shorter == SeqsUpTo(S, n - 1)
         IN  shorter \cup {Append(s, x) : s \in {t \in shorter : Len(t) = n - 1}, x \in S}

Drop(s, n) == SubSeq(s, n + 1, Len(s))

\* unicode.IsUpper and unicode.ToLower on the letters the model's identifiers
\* use
IsUpper(c) == c \in {"V", "L", "N", "C", "U", "R"}
ToLower(c) ==
    CASE c = "V" -> "v"
      [] c = "L" -> "l"
      [] c = "N" -> "n"
      [] c = "C" -> "c"
      [] c = "U" -> "u"
      [] c = "R" -> "r"
      [] OTHER -> c

\* ------------------------------------------------------------------ errors
NoErr == [kind |-> "nil"]
ErrNoCommand == [kind |-> "ErrNoCommand"]
ErrHelp == [kind |-> "ErrHelp"]
ErrUnusedArguments == [kind |-> "ErrUnusedArguments"]
UnknownCommandError(name) == [kind |-> "UnknownCommandError", name |-> name]
\* flag.ErrHelp, the flag package's own sentinel
FlagErrHelp == [kind |-> "flag.ErrHelp"]
\* the errors the flag package builds with failf
FlagError(what, flagName) == [kind |-> "flagError", what |-> what, name |-> flagName]


\* ------------------------------------------------------------ data model
\* Go types that appear in handler signatures
ArgsPtrType == "*Args"
GreetOptsPtrType == "*GreetOpts"
GlobalOptsPtrType == "*GlobalOpts"
\* a global options type that also implements CommandProvider
ProviderOptsPtrType == "*ProviderOpts"
ErrorType == "error"
IntType == "int"

\* an interface{} holding nothing
NilValue == [kind |-> "nil"]
\* an interface{} holding a pointer to a struct of the named type with the
\* given fields; the struct itself lives in the heap under the type's name
PtrToStruct(typ, fields) == [kind |-> "ptr", elem |-> "struct", type |-> typ, fields |-> fields]

\* the fields of the configuration structs of the host program, in
\* declaration order: identifier, `name` tag ("" when absent), kind, type
StructFields(typ) ==
    CASE typ \in {GlobalOptsPtrType, ProviderOptsPtrType} ->
            <<[ident |-> <<"V">>, tag |-> sEmpty, kind |-> "bool", type |-> "bool"]>>
      [] typ = GreetOptsPtrType ->
            <<[ident |-> <<"L", "o", "u", "d">>, tag |-> sEmpty, kind |-> "bool", type |-> "bool"]>>
      [] OTHER -> <<>>

\* a pointer to one of these structs
PtrTo(typ) == PtrToStruct(typ, StructFields(typ))

\* a declared positional argument, and the nil *Argument
Argument(name, optional) == [nil |-> FALSE, Name |-> name, Optional |-> optional]
NilArgument == [nil |-> TRUE]
\* var NoArgs = []*Argument{nil}
NoArgs == <<NilArgument>>

\* the name the host gives its i-th argument: "n", "nn", ...
ArgName(i) == [j \in 1..i |-> "n"]

\* the Args a command can declare: NoArgs, or up to MaxArgs Arguments, each
\* required or optional, in any order
ArgDecls ==
    {NoArgs} \cup {[i \in 1..Len(f) |-> Argument(ArgName(i), f[i])] : f \in SeqsUpTo(BOOLEAN, MaxArgs)}

\* a handler value: whether it is a function, its parameter and result types
Handler(isFunc, ins, outs) == [isFunc |-> isFunc, ins |-> ins, outs |-> outs]

\* type Cmd struct
Cmd(name, usage, decl, fn, options) ==
    [Name |-> name, Usage |-> usage, Args |-> decl, Func |-> fn, Options |-> options]

\* func (c *Cmd) hasArgs() bool
hasArgs(c) == Len(c.Args) > 0 /\ c.Args # NoArgs

\* --------------------------------------------------- configuration binder
\* defaultFieldNameFrom that writes the separator before every uppercase
\* character
RECURSIVE defaultFieldNameFromUnguarded(_, _, _)
defaultFieldNameFromUnguarded(name, ii, runes) ==
    IF ii > Len(name) THEN runes
    ELSE IF IsUpper(name[ii])
    THEN defaultFieldNameFromUnguarded(name, ii + 1, runes \o <<"-", ToLower(name[ii])>>)
    ELSE defaultFieldNameFromUnguarded(name, ii + 1, Append(runes, name[ii]))

\* the loop of defaultFieldName from the character at ii on, runes being
\* what it has written
RECURSIVE defaultFieldNameFrom(_, _, _)
defaultFieldNameFrom(name, ii, runes) ==
    IF ii > Len(name) THEN runes
    ELSE IF IsUpper(name[ii])
    THEN defaultFieldNameFrom(name, ii + 1,
                              (IF Len(runes) > 0 THEN Append(runes, "-") ELSE runes)
                                \o <<ToLower(name[ii])>>)
    ELSE defaultFieldNameFrom(name, ii + 1, Append(runes, name[ii]))

\* func defaultFieldName(name string) string
defaultFieldName(name) == defaultFieldNameFrom(name, 1, <<>>)

\* visitStruct, the name of a field: the `name` tag when present, else the
\* default name of the identifier
FlagNameOf(field) == IF field.tag # sEmpty THEN field.tag ELSE defaultFieldName(field.ident)

\* visitStruct: one visit per field, in declaration order.  reflect refuses
\* the Interface() of a field that is not exported (its identifier does not
\* start with an uppercase character): the visit of such a field panics
\* before the visitor is called
visitStruct(val) ==
    IF val.kind # "ptr" THEN [err |-> [kind |-> "errNoPointer"], flags |-> <<>>]
    ELSE IF val.elem # "struct" THEN [err |-> [kind |-> "errNoStruct"], flags |-> <<>>]
    ELSE [err |-> NoErr,
          flags |-> [i \in 1..Len(val.fields) |->
                        [name |-> FlagNameOf(val.fields[i]), index |-> i,
                         kind |-> val.fields[i].kind, type |-> val.fields[i].type,
                         ident |-> val.fields[i].ident,
                         exported |-> IsUpper(val.fields[i].ident[1])]]]

UnexportedField == [kind |-> "reflect", what |-> "Interface of unexported field"]
FlagRedefined(name) == [kind |-> "flag redefined", name |-> name]
InterfaceConversion(type) == [kind |-> "interface conversion", type |-> type]

\* the kinds of field setupOptionsFlags binds: the flag.Value implementations
\* and the kinds of its switch
SupportedKinds == {"flag.Value", "bool", "float64", "int", "uint", "int64", "uint64", "string"}

\* strconv.Itoa
RECURSIVE Itoa(_)
Itoa(n) ==
    IF n < 0 THEN <<"-">> \o Itoa(0 - n)
    ELSE LET digit == <<"0", "1", "2", "3", "4", "5", "6", "7", "8", "9">>[(n % 10) + 1]
         IN  IF n < 10 THEN <<digit>> ELSE Append(Itoa(n \div 10), digit)

\* the string a flag reports as its default, and fmt's %v: of a bool, of an
\* integer, of a string, of a flag.Value (its String())
FormatValue(kind, v) ==
    CASE kind = "bool" -> (IF v THEN sTrue ELSE <<"f", "a", "l", "s", "e">>)
      [] kind \in {"int", "uint", "int64", "uint64"} -> Itoa(v)
      [] OTHER -> v

\* the visits of setupOptionsFlags from visit i on: formal is the flag set
\* so far, vals the values of the struct's fields.  The flag package panics
\* when a name is defined twice; the assertion ptr.(*bool), ptr.(*int), ...
\* panics when the field's type is a named type of that kind
RECURSIVE bindFrom(_, _, _, _)
bindFrom(visits, i, vals, formal) ==
    IF i > Len(visits)
    THEN [panic |-> FALSE, value |-> [kind |-> "none"], err |-> NoErr, formal |-> formal]
    ELSE IF ~visits[i].exported
    THEN [panic |-> TRUE, value |-> UnexportedField, err |-> NoErr, formal |-> <<>>]
    ELSE IF visits[i].name = sEmpty
    THEN [panic |-> FALSE, value |-> [kind |-> "none"],
          err |-> [kind |-> "noName", field |-> visits[i].ident], formal |-> <<>>]
    ELSE IF visits[i].kind \notin SupportedKinds
    THEN [panic |-> FALSE, value |-> [kind |-> "none"],
          err |-> [kind |-> "invalidOptionType", field |-> visits[i].ident], formal |-> <<>>]
    ELSE IF visits[i].kind # "flag.Value" /\ visits[i].type # visits[i].kind
    THEN [panic |-> TRUE, value |-> InterfaceConversion(visits[i].type), err |-> NoErr,
          formal |-> <<>>]
    ELSE IF \E j \in 1..Len(formal) : formal[j].name = visits[i].name
    THEN [panic |-> TRUE, value |-> FlagRedefined(visits[i].name), err |-> NoErr, formal |-> <<>>]
    ELSE bindFrom(visits, i + 1, vals,
                  Append(formal, [name |-> visits[i].name, index |-> i, kind |-> visits[i].kind,
                                  def |-> FormatValue(visits[i].kind, vals[i])]))

\* setupOptionsFlags: the flag set bound to the struct sval points to, whose
\* fields hold vals; or the binder's error; or the panic of reflect or of the
\* flag package
setupOptionsFlags(name, sval, vals) ==
    LET v == visitStruct(sval)
        failed(e) == [panic |-> FALSE, value |-> [kind |-> "none"], err |-> e, formal |-> <<>>]
    IN  IF v.err.kind = "errNoPointer"
        THEN failed([kind |-> "invalidOptions", what |-> "must be a pointer", name |-> name])
        ELSE IF v.err.kind = "errNoStruct"
        THEN failed([kind |-> "invalidOptions", what |-> "not a struct", name |-> name])
        ELSE bindFrom(v.flags, 1, vals, <<>>)

\* the visits of flagsHelp from visit i on
RECURSIVE flagsHelpFrom(_, _, _, _)
flagsHelpFrom(visits, i, vals, flags) ==
    IF i > Len(visits)
    THEN [panic |-> FALSE, value |-> [kind |-> "none"], err |-> NoErr, flags |-> flags]
    ELSE IF ~visits[i].exported
    THEN [panic |-> TRUE, value |-> UnexportedField, err |-> NoErr, flags |-> <<>>]
    ELSE IF visits[i].name = sEmpty
    THEN [panic |-> FALSE, value |-> [kind |-> "none"],
          err |-> [kind |-> "noName", field |-> visits[i].ident], flags |-> <<>>]
    ELSE IF visits[i].kind \notin SupportedKinds
    THEN [panic |-> FALSE, value |-> [kind |-> "none"],
          err |-> [kind |-> "invalidOptionType", field |-> visits[i].ident], flags |-> <<>>]
    ELSE flagsHelpFrom(visits, i + 1, vals,
                       Append(flags,
                              [Name |-> visits[i].name,
                               Type |-> IF visits[i].kind = "flag.Value" THEN "string"
                                        ELSE visits[i].type,
                               Default |-> FormatValue(visits[i].kind, vals[i])]))

\* func flagsHelp(opts interface{}) ([]*Flag, error)
flagsHelp(sval, vals) ==
    LET v == visitStruct(sval)
    IN  IF v.err # NoErr
        THEN [panic |-> FALSE, value |-> [kind |-> "none"], err |-> v.err, flags |-> <<>>]
        ELSE flagsHelpFrom(v.flags, 1, vals, <<>>)

\* ----------------------------------------------------- flag.FlagSet.Parse
\* strconv.ParseBool, as bool flags use it for -name=value
TrueWords == {<<"1">>, <<"t">>, <<"T">>, sTrue, <<"T", "R", "U", "E">>, <<"T", "r", "u", "e">>}
FalseWords == {<<"0">>, <<"f">>, <<"F">>, <<"f", "a", "l", "s", "e">>,
               <<"F", "A", "L", "S", "E">>, <<"F", "a", "l", "s", "e">>}

Lookup(formal, name) == {i \in 1..Len(formal) : formal[i].name = name}

Min(S) == CHOOSE x \in S : \A y \in S : x <= y

\* FlagSet.parseOne: one step of the parser over the remaining tokens `toks`
\* and the bound struct's field values `vals`.  out is what failf and usage
\* write to the flag set's output, which is os.Stderr.
parseOne(formal, toks, vals) ==
    LET stop(rest) == [seen |-> FALSE, err |-> NoErr, toks |-> rest, vals |-> vals, out |-> <<>>]
        failf(what, n, vs) ==
            [seen |-> FALSE, err |-> FlagError(what, n), toks |-> Tail(toks), vals |-> vs,
             out |-> <<[d |-> "flag", err |-> FlagError(what, n)]>>]
    IN
    IF toks = <<>> THEN stop(toks)
    ELSE LET s == Head(toks) IN
    IF Len(s) < 2 \/ s[1] # "-" THEN stop(toks)
    ELSE LET numMinuses == IF s[2] = "-" THEN 2 ELSE 1 IN
    IF numMinuses = 2 /\ Len(s) = 2 THEN stop(Tail(toks))
    ELSE LET full == Drop(s, numMinuses) IN
    IF Len(full) = 0 \/ full[1] = "-" \/ full[1] = "=" THEN failf("bad flag syntax", s, vals)
    ELSE LET eqs == {i \in 2..Len(full) : full[i] = "="}
             hasValue == eqs # {}
             name == IF hasValue THEN SubSeq(full, 1, Min(eqs) - 1) ELSE full
             value == IF hasValue THEN Drop(full, Min(eqs)) ELSE sEmpty
             rest == Tail(toks)
             found == Lookup(formal, name)
         IN
    IF found = {}
    THEN IF name = sHelp \/ name = <<"h">>
         THEN [seen |-> FALSE, err |-> FlagErrHelp, toks |-> rest, vals |-> vals,
               out |-> <<[d |-> "flagUsage"]>>]
         ELSE failf("flag provided but not defined", name, vals)
    ELSE LET fl == formal[Min(found)] IN
    IF fl.kind = "bool"
    THEN IF hasValue /\ value \notin TrueWords \cup FalseWords
         THEN failf("invalid boolean value", name, vals)
         ELSE [seen |-> TRUE, err |-> NoErr, toks |-> rest,
               vals |-> [vals EXCEPT ![fl.index] = (~hasValue \/ value \in TrueWords)],
               out |-> <<>>]
    ELSE IF ~hasValue /\ rest = <<>>
         THEN failf("flag needs an argument", name, vals)
         ELSE [seen |-> TRUE, err |-> NoErr,
               toks |-> IF hasValue THEN rest ELSE Tail(rest),
               vals |-> [vals EXCEPT ![fl.index] = IF hasValue THEN value ELSE Head(rest)],
               out |-> <<>>]

\* Parse that stops after the first flag
ParseOneFlag(formal, toks, vals) ==
    LET r == parseOne(formal, toks, vals)
    IN  [err |-> r.err, args |-> r.toks, vals |-> r.vals, out |-> r.out]

\* FlagSet.Parse with ContinueOnError: parseOne until it sees no flag; the
\* fields set before a failure stay set.  args is what FlagSet.Args returns.
RECURSIVE Parse(_, _, _)
Parse(formal, toks, vals) ==
    LET r == parseOne(formal, toks, vals)
    IN  IF r.seen THEN Parse(formal, r.toks, r.vals)
        ELSE [err |-> r.err, args |-> r.toks, vals |-> r.vals, out |-> r.out]


\* -------------------------------------------------------- argument model
\* the result of code that may panic: a panic with a value, or an error
Panics(v) == [panic |-> TRUE, value |-> v, err |-> NoErr]
Returns(e) == [panic |-> FALSE, value |-> [kind |-> "none"], err |-> e]

NilDereference == [kind |-> "runtime error", what |-> "nil pointer dereference"]

\* validateFrom comparing with >= where the code compares with >
RECURSIVE validateFromOffByOne(_, _, _, _, _)
validateFromOffByOne(decl, i, hasOptional, req, prov) ==
    IF i > Len(decl)
    THEN IF req >= prov
         THEN Returns([kind |-> "insufficientArguments", req |-> req, prov |-> prov])
         ELSE Returns(NoErr)
    ELSE IF decl[i].nil THEN Panics(NilDereference)
    ELSE IF decl[i].Optional THEN validateFromOffByOne(decl, i + 1, TRUE, req, prov)
    ELSE IF hasOptional
    THEN Returns([kind |-> "requiredAfterOptional", name |-> decl[i].Name])
    ELSE validateFromOffByOne(decl, i + 1, hasOptional, req + 1, prov)

\* validateFrom without the check of the order of the arguments
RECURSIVE validateFromAnyOrder(_, _, _, _, _)
validateFromAnyOrder(decl, i, hasOptional, req, prov) ==
    IF i > Len(decl)
    THEN IF req > prov
         THEN Returns([kind |-> "insufficientArguments", req |-> req, prov |-> prov])
         ELSE Returns(NoErr)
    ELSE IF decl[i].nil THEN Panics(NilDereference)
    ELSE IF decl[i].Optional THEN validateFromAnyOrder(decl, i + 1, TRUE, req, prov)
    ELSE validateFromAnyOrder(decl, i + 1, hasOptional, req + 1, prov)

\* the loop of Args.validate from declared argument i on
RECURSIVE validateFrom(_, _, _, _, _)
validateFrom(decl, i, hasOptional, req, prov) ==
    IF i > Len(decl)
    THEN IF req > prov
         THEN Returns([kind |-> "insufficientArguments", req |-> req, prov |-> prov])
         ELSE Returns(NoErr)
    ELSE IF decl[i].nil THEN Panics(NilDereference)
    ELSE IF decl[i].Optional THEN validateFrom(decl, i + 1, TRUE, req, prov)
    ELSE IF hasOptional
    THEN Returns([kind |-> "requiredAfterOptional", name |-> decl[i].Name])
    ELSE validateFrom(decl, i + 1, hasOptional, req + 1, prov)

\* validate without the check of the NoArgs marker
validateWithoutMarker(decl, tokens) == validateFrom(decl, 1, FALSE, 0, Len(tokens))

\* func (a *Args) validate() error, for a.cmd.Args = decl and a.args = tokens
validate(decl, tokens) ==
    IF decl = NoArgs /\ Len(tokens) > 0 THEN Returns(ErrUnusedArguments)
    ELSE validateFrom(decl, 1, FALSE, 0, Len(tokens))

\* ---------------------------------------------------- signature validator
\* reflect.ValueOf(cmd.Options) when Options is non-nil, the zero Value otherwise
InvalidValue == [kind |-> "invalid"]
IsValid(v) == v.kind # "invalid"

validateCmdFuncInput(fn, optsVal) ==
    IF Len(fn.ins) < 1 \/ fn.ins[1] # ArgsPtrType
    THEN [kind |-> "signature", what |-> "first argument"]
    ELSE IF IsValid(optsVal) /\ (Len(fn.ins) < 2 \/ fn.ins[2] # optsVal.type)
    THEN [kind |-> "signature", what |-> "second argument"]
    ELSE NoErr

validateCmdFuncReturn(fn) ==
    IF Len(fn.outs) = 0 THEN NoErr
    ELSE IF Len(fn.outs) > 1 THEN [kind |-> "signature", what |-> "must return 0 or 1 arguments"]
    ELSE IF fn.outs[1] # ErrorType THEN [kind |-> "signature", what |-> "must return error"]
    ELSE NoErr

\* ------------------------------------------------------------------ help
\* commandByName that looks at the first command only
commandByNameFirstOnly(cmds, name) ==
    IF Len(cmds) > 0 /\ cmds[1].Name = name THEN 1 ELSE 0

\* func commandByName: the first command of that name, 0 for nil
commandByName(cmds, name) ==
    LET hits == {i \in 1..Len(cmds) : cmds[i].Name = name}
    IN  IF hits = {} THEN 0 ELSE Min(hits)

\* func printCommandHelp: it ranges over cmd.Args reading v.Optional when the
\* usage line is printed, and reading v.Name when the command has arguments
printCommandHelp(c) ==
    IF (c.Usage # sEmpty \/ hasArgs(c)) /\ (\E i \in 1..Len(c.Args) : c.Args[i].nil)
    THEN [panic |-> TRUE, value |-> NilDereference, err |-> NoErr,
          out |-> <<[d |-> "commandHelp", name |-> c.Name]>>]
    ELSE [panic |-> FALSE, value |-> [kind |-> "none"], err |-> NoErr,
          out |-> <<[d |-> "commandHelp", name |-> c.Name]>>]

Listing(cmds) == [d |-> "listing", names |-> [i \in 1..Len(cmds) |-> cmds[i].Name]]

\* printHelp, lines 436-446: the name printHelp reports as unknown, "" for none
unknownName(a, cmds) ==
    IF Len(a) > 1 /\ a[1] = sHelp THEN a[2]
    ELSE IF a[1] # sHelp /\ commandByName(cmds, a[1]) = 0 THEN a[1]
    ELSE sEmpty

\* helpError without the no-command sentinel
helpErrorNoSentinel(a, cmds) ==
    IF Len(a) = 0 THEN ErrHelp
    ELSE IF unknownName(a, cmds) # sEmpty THEN UnknownCommandError(unknownName(a, cmds))
    ELSE ErrHelp

\* printHelp: the error it returns when it prints the listing
helpError(a, cmds) ==
    IF Len(a) = 0 THEN ErrNoCommand
    ELSE IF unknownName(a, cmds) # sEmpty THEN UnknownCommandError(unknownName(a, cmds))
    ELSE ErrHelp

\* func printHelp(w, args, commands) error: the help of one command for
\* "help <command>", else the listing under its heading
printHelp(a, cmds) ==
    IF Len(a) > 1 /\ a[1] = sHelp /\ commandByName(cmds, a[2]) # 0
    THEN LET h == printCommandHelp(cmds[commandByName(cmds, a[2])])
         IN  [h EXCEPT !.err = IF h.panic THEN NoErr ELSE ErrHelp]
    ELSE [panic |-> FALSE, value |-> [kind |-> "none"], err |-> helpError(a, cmds),
          out |-> (IF Len(a) = 0 THEN <<[d |-> "missingCommand"]>>
                   ELSE IF unknownName(a, cmds) # sEmpty
                   THEN <<[d |-> "unknownCommand", name |-> unknownName(a, cmds)]>>
                   ELSE <<>>) \o <<Listing(cmds)>>]

\* ---------------------------------------------------------------- RunOpts
VARIABLES
    args,        \* the token list RunOpts is called with
    opts,        \* the *Options RunOpts is called with
    commands,    \* RunOpts's commands: the registry, then the provider's too
    heap,        \* the configuration structs, by the type of their pointer
    pc,          \* where RunOpts is
    rem,         \* the tokens left by the global flags
    cmd,         \* the resolved command, as its index in commands (0: none)
    cmdArgs,     \* the tokens after the command name, then after its flags
    optsVal,     \* reflect.ValueOf(cmd.Options), or the zero Value
    err,         \* what RunOpts returns
    panicValue,  \* the value of a panic that left RunOpts
    stderr,      \* what was written to os.Stderr
    stdout,      \* what was written to os.Stdout
    calls,       \* the host functions called so far, in order
    exit,        \* the step at which RunOpts ended, "" while it runs
    heap0,       \* the heap when RunOpts was called
    status,      \* the status the process exited with, <<>> while it lives
    trace,       \* the steps RunOpts has taken, in order
    this,        \* the value a function is applied to outside of RunOpts
    result       \* what that function returned

\* the variables of a call of RunOpts
runVars == <<args, opts, commands, heap, pc, rem, cmd, cmdArgs, optsVal, err, panicValue,
             stderr, stdout, calls, exit, heap0, status, trace>>

vars == <<runVars, this, result>>

\* type Options struct; a nil *Options
NilOptions == [nil |-> TRUE]
Options(o, before, func) == [nil |-> FALSE, Options |-> o, BeforeFunc |-> before, Func |-> func]

OptionsValues ==
    {NilOptions} \cup
    {Options(o, b, f) : o \in {NilValue, PtrTo(GlobalOptsPtrType), PtrTo(ProviderOptsPtrType)},
                        b \in BOOLEAN, f \in BOOLEAN}

\* the handler of greet: func(*Args, *GreetOpts) error
greetFunc == Handler(TRUE, <<ArgsPtrType, GreetOptsPtrType>>, <<ErrorType>>)

\* the host's registry: one command, greet, with a GreetOpts configuration
Registry(usage, decl) == <<Cmd(sGreet, usage, decl, greetFunc, PtrTo(GreetOptsPtrType))>>

\* what a CommandProvider may return: the command ada, without configuration
\* and without argument contract, under one of these handlers
ProvidedHandlers ==
    {Handler(TRUE, <<ArgsPtrType>>, <<>>),
     Handler(TRUE, <<ArgsPtrType>>, <<ErrorType>>),
     Handler(FALSE, <<>>, <<>>),
     Handler(TRUE, <<ArgsPtrType>>, <<IntType>>),
     Handler(TRUE, <<>>, <<>>),
     Handler(TRUE, <<ArgsPtrType, IntType>>, <<>>)}

ProvidedCommands == {<<Cmd(sAda, sEmpty, <<>>, h, NilValue)>> : h \in ProvidedHandlers}

\* the errors and panic values of the host's own functions
HostError(from) == [kind |-> "hostError", from |-> from]
HandlerPanicValues == {[kind |-> "value", v |-> "boom"]}

sUsage == <<"<", "n", ">">>

\* the heap when every configuration field holds its zero value but Loud
HeapWith(loud) ==
    [t \in {GlobalOptsPtrType, ProviderOptsPtrType, GreetOptsPtrType} |->
        IF t = GreetOptsPtrType THEN <<loud>> ELSE <<FALSE>>]

\* RunOpts is called with any token list, and with any Options on any
\* registry with a usage text and Loud at its default, or without Options on
\* any registry without usage text whose Loud is already set
Init ==
    /\ args \in SeqsUpTo(Tokens, MaxTokens)
    /\ \/ /\ opts \in OptionsValues
          /\ \E decl \in ArgDecls : commands = Registry(sUsage, decl)
          /\ heap = HeapWith(FALSE)
       \/ /\ opts = NilOptions
          /\ \E decl \in ArgDecls : commands = Registry(sEmpty, decl)
          /\ heap = HeapWith(TRUE)
    /\ pc = "start"
    /\ rem = <<>>
    /\ cmd = 0
    /\ cmdArgs = <<>>
    /\ optsVal = InvalidValue
    /\ err = NoErr
    /\ panicValue = [kind |-> "none"]
    /\ stderr = <<>>
    /\ stdout = <<>>
    /\ calls = <<>>
    /\ exit = ""
    /\ heap0 = heap
    /\ status = <<>>
    /\ trace = <<>>
    /\ this = NilValue
    /\ result = NilValue

\* dumpHelp, the value RunOpts panics with: the first error (or panic) of
\* flagsHelp over the options of opts, then of every command in order; NoErr
\* when there is none
dumpHelpErr(o, cmds, h) ==
    LET structs == (IF ~o.nil /\ o.Options # NilValue THEN <<o.Options>> ELSE <<>>)
                   \o SelectSeq([i \in 1..Len(cmds) |-> cmds[i].Options],
                                LAMBDA v : v # NilValue)
        outcome(v) == flagsHelp(v, h[v.type])
        bad == {i \in 1..Len(structs) : outcome(structs[i]).panic \/ outcome(structs[i]).err # NoErr}
    IN  IF bad = {} THEN NoErr
        ELSE LET first == CHOOSE i \in bad : \A j \in bad : i <= j
             IN  IF outcome(structs[first]).panic THEN outcome(structs[first]).value
                 ELSE outcome(structs[first]).err

\* parseGlobalOptions that drops the error of the parser
parseGlobalOptionsLenient(a, o, h) ==
    IF ~o.nil /\ o.Options # NilValue
    THEN LET p == Parse(setupOptionsFlags(sEmpty, o.Options, h[o.Options.type]).formal, a,
                        h[o.Options.type])
         IN  [panic |-> FALSE, value |-> [kind |-> "none"], err |-> NoErr, rem |-> p.args,
              heap |-> [h EXCEPT ![o.Options.type] = p.vals], out |-> p.out]
    ELSE [panic |-> FALSE, value |-> [kind |-> "none"], err |-> NoErr, rem |-> a, heap |-> h,
          out |-> <<>>]

\* func parseGlobalOptions
parseGlobalOptions(a, o, h) ==
    IF ~o.nil /\ o.Options # NilValue
    THEN LET fs == setupOptionsFlags(sEmpty, o.Options, h[o.Options.type])
         IN  IF fs.panic \/ fs.err # NoErr
             THEN [panic |-> TRUE, value |-> IF fs.panic THEN fs.value ELSE fs.err,
                   err |-> NoErr, rem |-> <<>>, heap |-> h,
                   out |-> <<>>]
             ELSE LET p == Parse(fs.formal, a, h[o.Options.type])
                  IN  [panic |-> FALSE, value |-> [kind |-> "none"], err |-> p.err,
                       rem |-> IF p.err = NoErr THEN p.args ELSE <<>>,
                       heap |-> [h EXCEPT ![o.Options.type] = p.vals], out |-> p.out]
    ELSE [panic |-> FALSE, value |-> [kind |-> "none"], err |-> NoErr, rem |-> a, heap |-> h,
          out |-> <<>>]

\* RunOpts takes the step `at`, and ends there when its next position is
\* "done" or "panicked"
Ends(at) == /\ exit' = IF pc' \in {"done", "panicked"} THEN at ELSE exit
            /\ trace' = Append(trace, at)
            /\ UNCHANGED <<heap0, status, this, result>>

\* Start that parses the global flags before it looks at the environment
StartDumpAfterFlags ==
    /\ pc = "start"
    /\ \E dump \in BOOLEAN :
        LET g == parseGlobalOptions(args, opts, heap)
        IN  /\ pc' = IF g.panic THEN "panicked"
                     ELSE IF dump \/ g.err # NoErr THEN "done" ELSE "before"
            /\ panicValue' = IF g.panic THEN g.value ELSE panicValue
            /\ err' = IF dump THEN NoErr ELSE g.err
            /\ rem' = g.rem
            /\ heap' = g.heap
            /\ stderr' = stderr \o g.out
            /\ stdout' = IF dump /\ ~g.panic THEN Append(stdout, [d |-> "helpDump"]) ELSE stdout
            /\ IF dump THEN Ends("dump") ELSE Ends("globals")
    /\ UNCHANGED <<args, opts, commands, cmd, cmdArgs, optsVal, calls>>

\* RunOpts, lines 207-219: the help dump when COMMAND_DUMP_HELP is set in the
\* environment, else the global flags
Start ==
    /\ pc = "start"
    /\ \E dump \in BOOLEAN :
        IF dump
        THEN LET e == dumpHelpErr(opts, commands, heap)
             IN  /\ pc' = IF e = NoErr THEN "done" ELSE "panicked"
                 /\ panicValue' = IF e = NoErr THEN panicValue ELSE e
                 /\ stdout' = IF e = NoErr THEN Append(stdout, [d |-> "helpDump"]) ELSE stdout
                 /\ UNCHANGED <<heap, rem, err, stderr>>
                 /\ Ends("dump")
        ELSE LET g == parseGlobalOptions(args, opts, heap)
             IN  /\ pc' = IF g.panic THEN "panicked" ELSE IF g.err # NoErr THEN "done" ELSE "before"
                 /\ panicValue' = IF g.panic THEN g.value ELSE panicValue
                 /\ err' = g.err
                 /\ rem' = g.rem
                 /\ heap' = g.heap
                 /\ stderr' = stderr \o g.out
                 /\ UNCHANGED stdout
                 /\ Ends("globals")
    /\ UNCHANGED <<args, opts, commands, cmd, cmdArgs, optsVal, calls>>

\* BeforeFunc when RunOpts goes on after an error of the hook
BeforeFuncErrorIgnored ==
    /\ pc = "before"
    /\ IF ~opts.nil /\ opts.BeforeFunc
       THEN \E e \in {NoErr, HostError("BeforeFunc")} :
               /\ calls' = Append(calls, [call |-> "BeforeFunc", res |-> e])
               /\ err' = e
               /\ pc' = "commands"
       ELSE /\ pc' = "commands"
            /\ UNCHANGED <<calls, err>>
    /\ UNCHANGED <<args, opts, commands, heap, rem, cmd, cmdArgs, optsVal, panicValue,
                   stderr, stdout>>
    /\ Ends("before")

\* RunOpts, lines 220-224: the pre-dispatch hook
BeforeFunc ==
    /\ pc = "before"
    /\ IF ~opts.nil /\ opts.BeforeFunc
       THEN \E e \in {NoErr, HostError("BeforeFunc")} :
               /\ calls' = Append(calls, [call |-> "BeforeFunc", res |-> e])
               /\ err' = e
               /\ pc' = IF e = NoErr THEN "commands" ELSE "done"
       ELSE /\ pc' = "commands"
            /\ UNCHANGED <<calls, err>>
    /\ UNCHANGED <<args, opts, commands, heap, rem, cmd, cmdArgs, optsVal, panicValue,
                   stderr, stdout>>
    /\ Ends("before")

IsCommandProvider(v) == v.kind = "ptr" /\ v.type = ProviderOptsPtrType

\* AdditionalCommands that puts the provided commands in the place of the
\* registry
AdditionalCommandsReplacing ==
    /\ pc = "commands"
    /\ IF ~opts.nil /\ opts.Options # NilValue /\ IsCommandProvider(opts.Options)
       THEN /\ calls' = Append(calls, [call |-> "Commands"])
            /\ \/ \E more \in ProvidedCommands :
                    /\ commands' = more
                    /\ pc' = "resolve"
                    /\ UNCHANGED panicValue
               \/ /\ panicValue' = [kind |-> "error obtaining additional commands"]
                  /\ pc' = "panicked"
                  /\ UNCHANGED commands
       ELSE /\ pc' = "resolve"
            /\ UNCHANGED <<calls, commands, panicValue>>
    /\ UNCHANGED <<args, opts, heap, rem, cmd, cmdArgs, optsVal, err, stderr, stdout>>
    /\ Ends("commands")

\* RunOpts, line 225, and Options.additionalCommands
AdditionalCommands ==
    /\ pc = "commands"
    /\ IF ~opts.nil /\ opts.Options # NilValue /\ IsCommandProvider(opts.Options)
       THEN /\ calls' = Append(calls, [call |-> "Commands"])
            /\ \/ \E more \in ProvidedCommands :
                    /\ commands' = commands \o more
                    /\ pc' = "resolve"
                    /\ UNCHANGED panicValue
               \/ /\ panicValue' = [kind |-> "error obtaining additional commands"]
                  /\ pc' = "panicked"
                  /\ UNCHANGED commands
       ELSE /\ pc' = "resolve"
            /\ UNCHANGED <<calls, commands, panicValue>>
    /\ UNCHANGED <<args, opts, heap, rem, cmd, cmdArgs, optsVal, err, stderr, stdout>>
    /\ Ends("commands")

\* RunOpts, lines 226-234: help, or the command named by the first token
Resolve ==
    /\ pc = "resolve"
    /\ IF Len(rem) = 0 \/ rem[1] = sHelp \/ commandByName(commands, rem[1]) = 0
       THEN LET h == IF Len(rem) = 0 \/ rem[1] = sHelp
                     THEN printHelp(rem, commands)
                     ELSE printHelp(args, commands)
            IN  /\ stderr' = stderr \o h.out
                /\ err' = h.err
                /\ pc' = IF h.panic THEN "panicked" ELSE "done"
                /\ panicValue' = IF h.panic THEN h.value ELSE panicValue
                /\ UNCHANGED <<cmd, cmdArgs>>
       ELSE /\ cmd' = commandByName(commands, rem[1])
            /\ cmdArgs' = Tail(rem)
            /\ pc' = "prepare"
            /\ UNCHANGED <<stderr, err, panicValue>>
    /\ UNCHANGED <<args, opts, commands, heap, rem, optsVal, stdout, calls>>
    /\ Ends("resolve")


\* recoverRun that formats the error without the value of the panic
recoverRunWithoutValue(c, r, located) ==
    [kind |-> "panicError", name |-> c.Name, value |-> [kind |-> "none"], located |-> located]

\* func recoverRun: the error that replaces RunOpts's result when a panic
\* with value r is recovered; located says whether getPanic and
\* runtime.Caller found the file and line of the panic
recoverRun(c, r, located) ==
    [kind |-> "panicError", name |-> c.Name, value |-> r, located |-> located]

\* RunOpts, lines 236-258, for the command c, the tokens toks after its name
\* and the heap h: the checks of the handler, the command's flags
prepare(c, toks, h) ==
    LET fn == c.Func
        stopped(v, e, out, hh) ==
            [panic |-> v # [kind |-> "none"], value |-> v, err |-> e, cmdArgs |-> toks,
             optsVal |-> InvalidValue, heap |-> hh, out |-> out]
    IN
    IF ~fn.isFunc THEN stopped([kind |-> "not a function", name |-> c.Name], NoErr, <<>>, h)
    ELSE IF validateCmdFuncReturn(fn) # NoErr
    THEN stopped([kind |-> "invalid handler", err |-> validateCmdFuncReturn(fn)], NoErr, <<>>, h)
    ELSE IF c.Options # NilValue /\ setupOptionsFlags(c.Name, c.Options, h[c.Options.type]).panic
    THEN stopped(setupOptionsFlags(c.Name, c.Options, h[c.Options.type]).value, NoErr, <<>>, h)
    ELSE IF c.Options # NilValue /\ setupOptionsFlags(c.Name, c.Options, h[c.Options.type]).err # NoErr
    THEN stopped(setupOptionsFlags(c.Name, c.Options, h[c.Options.type]).err, NoErr, <<>>, h)
    ELSE LET p == IF c.Options # NilValue
                  THEN Parse(setupOptionsFlags(c.Name, c.Options, h[c.Options.type]).formal, toks,
                             h[c.Options.type])
                  ELSE [err |-> NoErr, args |-> toks, vals |-> <<>>, out |-> <<>>]
             hh == IF c.Options # NilValue THEN [h EXCEPT ![c.Options.type] = p.vals] ELSE h
             ov == IF c.Options # NilValue THEN c.Options ELSE InvalidValue
         IN
    IF p.err # NoErr THEN stopped([kind |-> "none"], p.err, p.out, hh)
    ELSE IF validateCmdFuncInput(fn, ov) # NoErr
    THEN [panic |-> TRUE, value |-> [kind |-> "invalid handler", err |-> validateCmdFuncInput(fn, ov)],
          err |-> NoErr, cmdArgs |-> p.args, optsVal |-> ov, heap |-> hh, out |-> <<>>]
    ELSE [panic |-> FALSE, value |-> [kind |-> "none"], err |-> NoErr, cmdArgs |-> p.args,
          optsVal |-> ov, heap |-> hh, out |-> <<>>]

Prepare ==
    /\ pc = "prepare"
    /\ LET r == prepare(commands[cmd], cmdArgs, heap)
       IN  /\ heap' = r.heap
           /\ cmdArgs' = r.cmdArgs
           /\ optsVal' = r.optsVal
           /\ IF r.panic
              THEN \E located \in BOOLEAN :
                      /\ err' = recoverRun(commands[cmd], r.value, located)
                      /\ stderr' = Append(stderr, [d |-> "panic", err |-> err'])
                      /\ pc' = "done"
              ELSE /\ err' = r.err
                   /\ stderr' = stderr \o r.out
                   /\ pc' = IF r.err # NoErr THEN "done" ELSE "func"
    /\ UNCHANGED <<args, opts, commands, rem, cmd, panicValue, stdout, calls>>
    /\ Ends("prepare")

\* the configuration struct a command's Options points to, <<>> without one
OptionsOf(c, h) == IF c.Options # NilValue /\ c.Options.kind = "ptr" THEN h[c.Options.type] ELSE <<>>

\* OptionsFunc when the hook runs before the command's flags are parsed
OptionsFuncBeforeFlags ==
    /\ pc = "func"
    /\ IF ~opts.nil /\ opts.Func
       THEN \E e \in {NoErr, HostError("Func")} :
               /\ calls' = Append(calls, [call |-> "Func", cmd |-> commands[cmd].Name,
                                          options |-> OptionsOf(commands[cmd], heap0),
                                          res |-> e])
               /\ err' = e
               /\ pc' = IF e = NoErr THEN "validate" ELSE "done"
       ELSE /\ pc' = "validate"
            /\ UNCHANGED <<calls, err>>
    /\ UNCHANGED <<args, opts, commands, heap, rem, cmd, cmdArgs, optsVal, panicValue,
                   stderr, stdout>>
    /\ Ends("func")

\* RunOpts, lines 259-263: the post-resolution hook
OptionsFunc ==
    /\ pc = "func"
    /\ IF ~opts.nil /\ opts.Func
       THEN \E e \in {NoErr, HostError("Func")} :
               /\ calls' = Append(calls, [call |-> "Func", cmd |-> commands[cmd].Name,
                                          options |-> OptionsOf(commands[cmd], heap),
                                          res |-> e])
               /\ err' = e
               /\ pc' = IF e = NoErr THEN "validate" ELSE "done"
       ELSE /\ pc' = "validate"
            /\ UNCHANGED <<calls, err>>
    /\ UNCHANGED <<args, opts, commands, heap, rem, cmd, cmdArgs, optsVal, panicValue,
                   stderr, stdout>>
    /\ Ends("func")

\* RunOpts, lines 264-269: the argument contract
Validate ==
    /\ pc = "validate"
    /\ LET c == commands[cmd]
           v == validate(c.Args, cmdArgs)
       IN  IF v.panic
           THEN \E located \in BOOLEAN :
                   /\ err' = recoverRun(c, v.value, located)
                   /\ stderr' = Append(stderr, [d |-> "panic", err |-> err'])
                   /\ pc' = "done"
           ELSE /\ err' = v.err
                /\ stderr' = IF v.err = ErrUnusedArguments
                             THEN Append(stderr, [d |-> "noArguments", name |-> rem[1]])
                             ELSE stderr
                /\ pc' = IF v.err # NoErr THEN "done" ELSE "invoke"
    /\ UNCHANGED <<args, opts, commands, heap, rem, cmd, cmdArgs, optsVal, panicValue,
                   stdout, calls>>
    /\ Ends("validate")

\* what a handler can do once called: return its results (none, or one
\* error that may be nil), or panic
HandlerOutcomes(fn) ==
    {[panic |-> FALSE, value |-> [kind |-> "none"], res |-> r] :
        r \in IF Len(fn.outs) = 0 THEN {<<>>} ELSE {<<NoErr>>, <<HostError("handler")>>}}
    \cup {[panic |-> TRUE, value |-> v, res |-> <<>>] : v \in HandlerPanicValues}

\* resultError when the results of the call are ignored
resultErrorIgnored(res) == NoErr

\* RunOpts, lines 275-281: the error in the results of the call, nil for none
resultError(res) == IF Len(res) > 0 /\ res[1] # NoErr THEN res[1] ELSE NoErr

\* Invoke that calls the handler again after it panicked
InvokeRetryAfterPanic ==
    /\ pc = "invoke"
    /\ LET c == commands[cmd]
           fnArgs == <<ArgsPtrType>> \o (IF IsValid(optsVal) THEN <<optsVal.type>> ELSE <<>>)
       IN  IF Len(fnArgs) # Len(c.Func.ins)
           THEN \E located \in BOOLEAN :
                   /\ err' = recoverRun(c, [kind |-> "reflect", what |-> "Call: wrong argument count"],
                                        located)
                   /\ stderr' = Append(stderr, [d |-> "panic", err |-> err'])
                   /\ UNCHANGED calls
           ELSE \E o \in HandlerOutcomes(c.Func) :
                   /\ calls' = LET call == [call |-> "handler", cmd |-> c.Name, args |-> cmdArgs,
                                            params |-> fnArgs, options |-> OptionsOf(c, heap),
                                            outcome |-> o]
                               IN  IF o.panic THEN calls \o <<call, call>> ELSE Append(calls, call)
                   /\ IF o.panic
                      THEN \E located \in BOOLEAN :
                              /\ err' = recoverRun(c, o.value, located)
                              /\ stderr' = Append(stderr, [d |-> "panic", err |-> err'])
                      ELSE /\ err' = resultError(o.res)
                           /\ stderr' = IF resultError(o.res) # NoErr
                                        THEN Append(stderr, [d |-> "errorRunning", name |-> rem[1],
                                                             err |-> resultError(o.res)])
                                        ELSE stderr
    /\ pc' = "done"
    /\ UNCHANGED <<args, opts, commands, heap, rem, cmd, cmdArgs, optsVal, panicValue, stdout>>
    /\ Ends("invoke")

\* RunOpts, lines 270-281: the call of the handler with the argument carrier
\* and, when the command has Options, the Options; reflect's Call panics
\* before calling when the handler takes another number of parameters
Invoke ==
    /\ pc = "invoke"
    /\ LET c == commands[cmd]
           fnArgs == <<ArgsPtrType>> \o (IF IsValid(optsVal) THEN <<optsVal.type>> ELSE <<>>)
       IN  IF Len(fnArgs) # Len(c.Func.ins)
           THEN \E located \in BOOLEAN :
                   /\ err' = recoverRun(c, [kind |-> "reflect", what |-> "Call: wrong argument count"],
                                        located)
                   /\ stderr' = Append(stderr, [d |-> "panic", err |-> err'])
                   /\ UNCHANGED calls
           ELSE \E o \in HandlerOutcomes(c.Func) :
                   /\ calls' = Append(calls,
                                      [call |-> "handler", cmd |-> c.Name, args |-> cmdArgs,
                                       params |-> fnArgs, options |-> OptionsOf(c, heap),
                                       outcome |-> o])
                   /\ IF o.panic
                      THEN \E located \in BOOLEAN :
                              /\ err' = recoverRun(c, o.value, located)
                              /\ stderr' = Append(stderr, [d |-> "panic", err |-> err'])
                      ELSE /\ err' = resultError(o.res)
                           /\ stderr' = IF resultError(o.res) # NoErr
                                        THEN Append(stderr, [d |-> "errorRunning", name |-> rem[1],
                                                             err |-> resultError(o.res)])
                                        ELSE stderr
    /\ pc' = "done"
    /\ UNCHANGED <<args, opts, commands, heap, rem, cmd, cmdArgs, optsVal, panicValue, stdout>>
    /\ Ends("invoke")

\* Exit with the statuses of ErrHelp and ErrNoCommand exchanged
ExitSwapped(e) ==
    CASE e = ErrHelp -> 3
      [] e = ErrNoCommand -> 2
      [] e = ErrUnusedArguments -> 4
      [] e = NoErr -> 0
      [] OTHER -> 1

\* func Exit without the call of os.Exit: the status of a result of RunOpts
Exit(e) ==
    CASE e = ErrHelp -> 2
      [] e = ErrNoCommand -> 3
      [] e = ErrUnusedArguments -> 4
      [] e = NoErr -> 0
      [] OTHER -> 1

\* the host hands the result of RunOpts to Exit, which ends the process
CallExit ==
    /\ pc = "done"
    /\ status = <<>>
    /\ status' = <<Exit(err)>>
    /\ UNCHANGED <<args, opts, commands, heap, pc, rem, cmd, cmdArgs, optsVal, err, panicValue,
                   stderr, stdout, calls, exit, heap0, trace, this, result>>

Next ==
    \/ Start
    \/ BeforeFunc
    \/ AdditionalCommands
    \/ Resolve
    \/ Prepare
    \/ OptionsFunc
    \/ Validate
    \/ Invoke
    \/ CallExit

Spec == Init /\ [][Next]_vars


\* ------------------------------------------------------------------- Args
\* no call of RunOpts is under way
NotRunning ==
    /\ pc = "idle"
    /\ args = <<>> /\ opts = NilOptions /\ commands = <<>>
    /\ heap = HeapWith(FALSE) /\ heap0 = heap
    /\ rem = <<>> /\ cmd = 0 /\ cmdArgs = <<>> /\ optsVal = InvalidValue
    /\ err = NoErr /\ panicValue = [kind |-> "none"]
    /\ stderr = <<>> /\ stdout = <<>> /\ calls = <<>>
    /\ exit = "" /\ status = <<>> /\ trace = <<>>

\* what a method returns: a string, or a panic with a value
Returned(str) == [panic |-> FALSE, value |-> [kind |-> "none"], out |-> str]
Panicked(v) == [panic |-> TRUE, value |-> v, out |-> sEmpty]
IndexOutOfRange == [kind |-> "runtime error", what |-> "index out of range"]

\* func newArgs(values []string, cmd *Cmd) *Args
newArgs(values, c) == [args |-> values, cmd |-> c]

\* the loop of argumentPos from the declared argument at index ii on
RECURSIVE argumentPosFrom(_, _, _)
argumentPosFrom(decl, ii, name) ==
    IF ii >= Len(decl)
    THEN [panic |-> FALSE, value |-> [kind |-> "none"], pos |-> 0,
          err |-> [kind |-> "argumentNotFound", name |-> name]]
    ELSE IF decl[ii + 1].nil
    THEN [panic |-> TRUE, value |-> NilDereference, pos |-> 0, err |-> NoErr]
    ELSE IF decl[ii + 1].Name = name
    THEN [panic |-> FALSE, value |-> [kind |-> "none"], pos |-> ii, err |-> NoErr]
    ELSE argumentPosFrom(decl, ii + 1, name)

\* func (a *Args) argumentPos(name string) (int, error)
argumentPos(a, name) == argumentPosFrom(a.cmd.Args, 0, name)

\* StringAt that compares with > where the code compares with >=
StringAtOffByOne(a, pos) ==
    IF pos > Len(a.args) THEN Returned(sEmpty)
    ELSE IF pos < 0 \/ pos >= Len(a.args) THEN Panicked(IndexOutOfRange)
    ELSE Returned(a.args[pos + 1])

\* func (a *Args) StringAt(pos int) string
StringAt(a, pos) ==
    IF pos >= Len(a.args) THEN Returned(sEmpty)
    ELSE IF pos < 0 THEN Panicked(IndexOutOfRange)
    ELSE Returned(a.args[pos + 1])

\* func (a *Args) String(name string) string
String(a, name) ==
    LET p == argumentPos(a, name)
    IN  IF p.panic THEN Panicked(p.value)
        ELSE IF p.err # NoErr THEN Panicked(p.err)
        ELSE StringAt(a, p.pos)

\* the tokens a handler's carrier holds, the names a host declares and asks
\* for, and the Args a host declares under these names (a name may be
\* declared twice)
PositionalTokens == {sEmpty, sAda, sGreet}
DeclaredNames == {ArgName(1), ArgName(2)}
QueryNames == DeclaredNames \cup {<<"x">>}
NamedArgDecls ==
    {NoArgs} \cup
    {[i \in 1..Len(f) |-> Argument(f[i][1], f[i][2])] :
        f \in SeqsUpTo(DeclaredNames \X BOOLEAN, MaxArgs)}

\* any carrier of any command
InitArgs ==
    /\ NotRunning
    /\ this \in {newArgs(v, Cmd(sGreet, sEmpty, d, greetFunc, NilValue)) :
                    v \in SeqsUpTo(PositionalTokens, MaxTokens), d \in NamedArgDecls}
    /\ result = NilValue

\* a handler asks its carrier for an argument by name
CallString ==
    /\ \E name \in QueryNames :
          result' = [call |-> "String", name |-> name, r |-> String(this, name)]
    /\ UNCHANGED <<runVars, this>>

\* a handler asks its carrier for an argument by position
CallStringAt ==
    /\ \E pos \in (-1)..(MaxTokens + 1) :
          result' = [call |-> "StringAt", pos |-> pos, r |-> StringAt(this, pos)]
    /\ UNCHANGED <<runVars, this>>

NextArgs ==
    \/ CallString
    \/ CallStringAt

SpecArgs == InitArgs /\ [][NextArgs]_vars

\* --------------------------------------------- binding a struct on its own
MaxFields == 2

\* the identifiers, `name` tags and typed values of the fields of a struct:
\* exported identifiers of one and of several words, one that is not
\* exported; a bool, an int, an int of a named type, a string, a flag.Value
\* (its value is what its String() gives) and a slice
FieldIdents == {<<"V">>, <<"N", "o", "C">>, <<"U", "R">>, <<"x">>}
FieldTags == {sEmpty, <<"v">>}
BoolValue(b) == [b |-> b, n |-> 0, s |-> sEmpty]
IntValue(n) == [b |-> FALSE, n |-> n, s |-> sEmpty]
StringValue(s) == [b |-> FALSE, n |-> 0, s |-> s]
FieldValues ==
    {[kind |-> "bool", type |-> "bool", val |-> BoolValue(b)] : b \in BOOLEAN}
    \cup {[kind |-> "int", type |-> "int", val |-> IntValue(n)] : n \in {42, 0 - 7}}
    \cup {[kind |-> "int", type |-> "Level", val |-> IntValue(42)],
          [kind |-> "string", type |-> "string", val |-> StringValue(sAda)],
          [kind |-> "flag.Value", type |-> "Names", val |-> StringValue(sAda)],
          [kind |-> "slice", type |-> "[]string", val |-> StringValue(sEmpty)]}
Fields == {[ident |-> id, tag |-> t, tv |-> tv] :
              id \in FieldIdents, t \in FieldTags, tv \in FieldValues}

\* reflect.ValueOf of a pointer to a struct with the given fields, and the
\* values the fields hold
StructOf(fs) ==
    [ref |-> PtrToStruct("T",
                         [i \in 1..Len(fs) |->
                             [ident |-> fs[i].ident, tag |-> fs[i].tag,
                              kind |-> fs[i].tv.kind, type |-> fs[i].tv.type]]),
     vals |-> [i \in 1..Len(fs) |-> fs[i].tv.val]]

\* a struct passed by value, and a pointer to something that is no struct
NotPointer == [ref |-> [kind |-> "struct"], vals |-> <<>>]
NotStruct == [ref |-> [kind |-> "ptr", elem |-> "int"], vals |-> <<>>]

\* the values of the fields of the struct, each as its kind holds it
ValuesOf(st) ==
    IF st.vals = <<>> THEN <<>>
    ELSE [i \in 1..Len(st.vals) |->
             CASE st.ref.fields[i].kind = "bool" -> st.vals[i].b
               [] st.ref.fields[i].kind = "int" -> st.vals[i].n
               [] OTHER -> st.vals[i].s]

\* any value a host may give as Options
InitBind ==
    /\ NotRunning
    /\ this \in {NotPointer, NotStruct} \cup {StructOf(fs) : fs \in SeqsUpTo(Fields, MaxFields)}
    /\ result = NilValue

\* the flags are bound to the struct
Bind ==
    /\ result' = [call |-> "setupOptionsFlags", r |-> setupOptionsFlags(sGreet, this.ref, ValuesOf(this))]
    /\ UNCHANGED <<runVars, this>>

\* the help of the flags is computed
FlagsHelp ==
    /\ result' = [call |-> "flagsHelp", r |-> flagsHelp(this.ref, ValuesOf(this))]
    /\ UNCHANGED <<runVars, this>>

NextBind ==
    \/ Bind
    \/ FlagsHelp

SpecBind == InitBind /\ [][NextBind]_vars

\* ------------------------------------------------------------- properties
Range(q) == {q[i] : i \in 1..Len(q)}

\* a command handler, or the post-resolution hook, has been called
HandlerInvoked == \E i \in 1..Len(calls) : calls[i].call = "handler"
FuncInvoked == \E i \in 1..Len(calls) : calls[i].call = "Func"
LastCall == calls[Len(calls)]

\* the resolved command
Selected == commands[cmd]

\* RunOpts has ended at command resolution
EndedResolving == exit = "resolve"

\* argument validation has run for the resolved command
Validated == pc = "invoke" \/ exit \in {"validate", "invoke"}
\* argument validation has run and RunOpts has gone on to the handler
PassedValidation == pc = "invoke" \/ exit = "invoke"

\* decl is a sequence of Arguments (it holds no nil, so it is not NoArgs)
Declared(decl) == \A i \in 1..Len(decl) : ~decl[i].nil
RequiredCount(decl) == Cardinality({i \in 1..Len(decl) : ~decl[i].Optional})
RequiredAfterOptional(decl) ==
    \E i, j \in 1..Len(decl) : i < j /\ decl[i].Optional /\ ~decl[j].Optional

\* C1: when command resolution finds no token left after the global flags,
\* RunOpts returns ErrNoCommand and has called neither a handler nor
\* Options.Func.
C1_NoCommand ==
    (EndedResolving /\ rem = <<>>)
        => (pc = "done" /\ err = ErrNoCommand /\ ~HandlerInvoked /\ ~FuncInvoked)

\* the token list was not empty, its global flag was removed, a hook was set
C1_Witness ==
    /\ EndedResolving /\ rem = <<>> /\ args = <<sDashV>>
    /\ err = ErrNoCommand
    /\ ~opts.nil /\ opts.Func

\* C2: when the first token left after the global flags is not "help" and
\* names no command of the registry (the provider's included), RunOpts
\* returns an UnknownCommandError and calls no handler.
C2_UnknownCommand ==
    (EndedResolving /\ rem # <<>> /\ rem[1] # sHelp /\ commandByName(commands, rem[1]) = 0)
        => (pc = "done" /\ err.kind = "UnknownCommandError" /\ ~HandlerInvoked)

\* C3: when the first token left is "help": alone it gives ErrHelp, followed
\* by the name of a command it gives ErrHelp, followed by another token it
\* gives the UnknownCommandError of that token; no handler is called.
C3_Help ==
    (EndedResolving /\ rem # <<>> /\ rem[1] = sHelp)
        => /\ pc = "done"
           /\ ~HandlerInvoked
           /\ err = IF Len(rem) = 1 THEN ErrHelp
                    ELSE IF commandByName(commands, rem[2]) # 0 THEN ErrHelp
                    ELSE UnknownCommandError(rem[2])

\* what C4 says of a validated command with k required arguments and n tokens
CountChecked ==
    LET k == RequiredCount(Selected.Args)
        n == Len(cmdArgs)
    IN  IF n < k
        THEN /\ exit = "validate" /\ pc = "done"
             /\ err = [kind |-> "insufficientArguments", req |-> k, prov |-> n]
             /\ ~HandlerInvoked
        ELSE PassedValidation

\* C4 as stated: for every declared Argument sequence with k required
\* arguments, validation fails with k required and n provided when n < k, and
\* succeeds for every n >= k.
C4_Original == (Validated /\ Declared(Selected.Args)) => CountChecked

\* C4 as amended: the same, for the sequences in which no required argument
\* follows an optional one.
C4_RequiredCount ==
    (Validated /\ Declared(Selected.Args) /\ ~RequiredAfterOptional(Selected.Args))
        => CountChecked

\* two arguments are required and one token is provided
C4_Witness ==
    /\ exit = "validate" /\ Declared(Selected.Args)
    /\ err = [kind |-> "insufficientArguments", req |-> 2, prov |-> 1]

\* C5: for a command whose Args is NoArgs, a token left after its flags makes
\* RunOpts return ErrUnusedArguments after a diagnostic that names the
\* command, without calling the handler.
C5_UnusedArguments ==
    (Validated /\ Selected.Args = NoArgs /\ Len(cmdArgs) > 0)
        => /\ exit = "validate" /\ pc = "done"
           /\ err = ErrUnusedArguments
           /\ [d |-> "noArguments", name |-> Selected.Name] \in Range(stderr)
           /\ ~HandlerInvoked

\* a flag of the command was parsed and a token is left
C5_Witness ==
    /\ exit = "validate" /\ Selected.Args = NoArgs
    /\ cmdArgs = <<sAda>> /\ rem = <<sGreet, sDashDashLoud, sAda>>
    /\ err = ErrUnusedArguments

\* C6: for a command whose Args is NoArgs, no token left after its flags
\* passes validation: the handler is called.
C6_NoArgsAccepted ==
    (Validated /\ Selected.Args = NoArgs /\ Len(cmdArgs) = 0)
        => (PassedValidation /\ (exit = "invoke" => HandlerInvoked))

\* C7: for a declared Argument sequence with a required argument after an
\* optional one, validation fails for every number of tokens and the handler
\* is not called.
C7_RequiredAfterOptional ==
    (Validated /\ Declared(Selected.Args) /\ RequiredAfterOptional(Selected.Args))
        => (exit = "validate" /\ pc = "done" /\ err # NoErr /\ ~HandlerInvoked)

\* as many tokens as declared arguments, and validation fails
C7_Witness ==
    /\ exit = "validate" /\ Declared(Selected.Args) /\ RequiredAfterOptional(Selected.Args)
    /\ Len(cmdArgs) = Len(Selected.Args)
    /\ err.kind = "requiredAfterOptional"

\* C8: once the handler is called, RunOpts returns nil exactly when the
\* handler returns, without a panic, nothing or a nil error; when it returns
\* an error, RunOpts returns that error after a diagnostic naming the command.
C8_HandlerResult ==
    (exit = "invoke" /\ HandlerInvoked)
        => LET o == LastCall.outcome
               returnedError == ~o.panic /\ o.res # <<>> /\ o.res[1] # NoErr
           IN  /\ pc = "done"
               /\ (err = NoErr) <=> (~o.panic /\ ~returnedError)
               /\ returnedError
                    => /\ err = o.res[1]
                       /\ [d |-> "errorRunning", name |-> Selected.Name, err |-> o.res[1]]
                            \in Range(stderr)

\* the handler returned an error
C8_Witness ==
    /\ exit = "invoke" /\ HandlerInvoked
    /\ ~LastCall.outcome.panic /\ LastCall.outcome.res = <<HostError("handler")>>
    /\ err = HostError("handler")

\* the names of the flags of command c, and the tokens that give one of them
FlagNames(c) ==
    IF c.Options = NilValue THEN {}
    ELSE {FlagNameOf(StructFields(c.Options.type)[i]) : i \in 1..Len(StructFields(c.Options.type))}
Gives(t, name) == t = <<"-">> \o name \/ t = <<"-", "-">> \o name
IsFlagToken(t, c) == \E name \in FlagNames(c) : Gives(t, name)

\* the number of flag tokens of c at the head of toks
RECURSIVE LeadingFlags(_, _)
LeadingFlags(toks, c) ==
    IF toks # <<>> /\ IsFlagToken(Head(toks), c) THEN 1 + LeadingFlags(Tail(toks), c) ELSE 0

\* the handler was called with the carrier and, exactly when the command has
\* Options, its Options
CalledWithOptions ==
    LastCall.params = <<ArgsPtrType>> \o (IF Selected.Options # NilValue
                                          THEN <<Selected.Options.type>> ELSE <<>>)

\* the fields of the Options the handler saw are those given by the flags
\* among toks (a bool flag given is true), the others as they were before
FieldsGivenBy(toks) ==
    Selected.Options # NilValue =>
        \A i \in 1..Len(StructFields(Selected.Options.type)) :
            LastCall.options[i] =
                IF \E t \in Range(toks) : Gives(t, FlagNameOf(StructFields(Selected.Options.type)[i]))
                THEN TRUE
                ELSE heap0[Selected.Options.type][i]

\* C9 as stated: the handler is called with the carrier and, iff the command
\* has Options, its Options; the carrier holds the tokens after the command
\* name with the command's flags removed, in order; the Options fields hold
\* the values of the flags present in the input, the others their prior
\* values.  (A "--" that ends the flags is taken as removed with them.)
C9_Original ==
    (exit = "invoke" /\ HandlerInvoked)
        => LET toks == Tail(rem)
               k == LeadingFlags(toks, Selected)
               ended == Selected.Options # NilValue /\ Len(toks) > k /\ toks[k + 1] = sDashDash
               read == IF ended THEN SubSeq(toks, 1, k) \o Drop(toks, k + 1) ELSE toks
               notFlag(t) == ~IsFlagToken(t, Selected)
           IN  /\ CalledWithOptions
               /\ LastCall.args = SelectSeq(read, notFlag)
               /\ FieldsGivenBy(read)

\* C9 as amended: only the flags at the head of the tokens after the command
\* name are removed and applied, with one "--" that ends them; the tokens
\* from the first non-flag token on are the carrier's, flags included.
C9_CarrierAndOptions ==
    (exit = "invoke" /\ HandlerInvoked)
        => LET toks == Tail(rem)
               k == LeadingFlags(toks, Selected)
               ended == IF Selected.Options # NilValue /\ Len(toks) > k /\ toks[k + 1] = sDashDash
                        THEN 1 ELSE 0
           IN  /\ CalledWithOptions
               /\ LastCall.args = Drop(toks, k + ended)
               /\ FieldsGivenBy(SubSeq(toks, 1, k))

\* greet --loud ada: Loud was false and is true, the carrier holds ada
C9_Witness ==
    /\ exit = "invoke" /\ HandlerInvoked
    /\ rem = <<sGreet, sDashDashLoud, sAda>>
    /\ heap0[GreetOptsPtrType] = <<FALSE>>
    /\ LastCall.options = <<TRUE>>
    /\ LastCall.args = <<sAda>>
    /\ LastCall.params = <<ArgsPtrType, GreetOptsPtrType>>

\* C10: a panic of the handler with value v does not leave RunOpts: RunOpts
\* returns an error that carries the command's name and v, with or without
\* a location, and has written that error to the diagnostic stream.
C10_PanicRecovered ==
    (exit = "invoke" /\ HandlerInvoked /\ LastCall.outcome.panic)
        => /\ pc = "done"
           /\ err.kind = "panicError"
           /\ err.name = Selected.Name
           /\ err.value = LastCall.outcome.value
           /\ [d |-> "panic", err |-> err] \in Range(stderr)

\* the handler panicked and the location was found
C10_Witness ==
    /\ exit = "invoke" /\ HandlerInvoked /\ LastCall.outcome.panic
    /\ err.kind = "panicError" /\ err.located
    /\ err.value = [kind |-> "value", v |-> "boom"]

\* RunOpts has finished its checks of the resolved command's handler and
\* Options (lines 236-258), and they let it go on
ChecksDone == cmd # 0 /\ pc # "prepare"
Accepted == pc \in {"func", "validate", "invoke"} \/ exit \in {"func", "validate", "invoke"}
FlagsFailed == exit = "prepare" /\ err.kind \in {"flagError", "flag.ErrHelp"}

\* the parameters RunOpts calls the handler of c with, and the handlers that
\* fit them: a function of exactly these parameters that returns nothing or
\* one error
ContractParams(c) ==
    <<ArgsPtrType>> \o (IF c.Options # NilValue THEN <<c.Options.type>> ELSE <<>>)
ContractShape(c) ==
    /\ c.Func.isFunc
    /\ c.Func.ins = ContractParams(c)
    /\ c.Func.outs \in {<<>>, <<ErrorType>>}

\* a defect RunOpts itself looks for before the call: a handler that is not
\* a function, a result list or a leading parameter of the wrong type,
\* Options the binder refuses
DefectLookedFor(c) ==
    \/ ~c.Func.isFunc
    \/ Len(c.Func.outs) > 1 \/ (Len(c.Func.outs) = 1 /\ c.Func.outs[1] # ErrorType)
    \/ \E i \in 1..Len(ContractParams(c)) :
            Len(c.Func.ins) < i \/ c.Func.ins[i] # ContractParams(c)[i]
    \/ c.Options # NilValue /\ setupOptionsFlags(c.Name, c.Options, heap0[c.Options.type]).err # NoErr

\* C11: a defect of the selected command found before its handler is called
\* leaves RunOpts as a panic; it is not turned into a returned error.
C11_DefectsFatal ==
    (ChecksDone /\ DefectLookedFor(Selected) /\ ~FlagsFailed)
        => (pc = "panicked" /\ panicValue # [kind |-> "none"] /\ err = NoErr)

\* C12: dispatching to a command whose Argument sequence has a required
\* argument after an optional one ends in a panic out of RunOpts, not in a
\* returned error.
C12_MisorderFatal ==
    (Validated /\ Declared(Selected.Args) /\ RequiredAfterOptional(Selected.Args))
        => (pc = "panicked" /\ err = NoErr)

\* C13: the checks accept the handler of the selected command exactly when
\* it is a function of the parameters (*Args), or (*Args, T) for Options of
\* type T, that returns nothing or one error; any other handler is never
\* called.
C13_SignatureAccepted ==
    (ChecksDone /\ ~FlagsFailed)
        => /\ Accepted <=> ContractShape(Selected)
           /\ ~ContractShape(Selected) => ~HandlerInvoked

\* the places in the call log of the calls of one host function
Index(name) == {i \in 1..Len(calls) : calls[i].call = name}
\* the call of Options.Func, once made
FuncCall == calls[CHOOSE i \in Index("Func") : TRUE]
HasListing == \E i \in 1..Len(stderr) : stderr[i].d = "listing"

\* C14 as stated: the hook Options.Func is passed the resolved command and
\* runs before the command's flags are parsed: the command's configuration
\* struct holds, when the hook runs, what it held when RunOpts was called.
C14_Original ==
    FuncInvoked
        => /\ cmd # 0
           /\ FuncCall.cmd = rem[1]
           /\ FuncCall.cmd = Selected.Name
           /\ FuncCall.options = OptionsOf(Selected, heap0)

\* C14 as amended: the hook Options.Func is passed the resolved command and
\* runs after the command's flags are parsed: the fields of the command's
\* configuration struct given by the flags at the head of the tokens after
\* the command name hold the flags' values, the others what they held when
\* RunOpts was called.
C14_FuncAfterFlags ==
    FuncInvoked
        => /\ cmd # 0
           /\ FuncCall.cmd = rem[1]
           /\ FuncCall.cmd = Selected.Name
           /\ IF Selected.Options = NilValue THEN FuncCall.options = <<>>
              ELSE LET fields == StructFields(Selected.Options.type)
                       given == SubSeq(Tail(rem), 1, LeadingFlags(Tail(rem), Selected))
                   IN  /\ Len(FuncCall.options) = Len(fields)
                       /\ \A i \in 1..Len(fields) :
                            FuncCall.options[i] =
                                IF \E t \in Range(given) : Gives(t, FlagNameOf(fields[i]))
                                THEN TRUE
                                ELSE heap0[Selected.Options.type][i]

\* greet --loud: Loud was false when RunOpts was called, the hook sees true
C14_Witness ==
    /\ FuncInvoked
    /\ rem = <<sGreet, sDashDashLoud>>
    /\ heap0[GreetOptsPtrType] = <<FALSE>>
    /\ FuncCall.cmd = sGreet
    /\ FuncCall.options = <<TRUE>>

\* the global flags were parsed and RunOpts went on; it is past the
\* pre-dispatch hook; it is past the provider's commands
PastGlobals == pc # "start" /\ exit \notin {"dump", "globals"}
PastBefore == PastGlobals /\ pc # "before"
PastCommands == PastBefore /\ pc # "commands" /\ exit # "before"
PastResolve == PastCommands /\ pc # "resolve" /\ exit # "commands"
HasProvider == ~opts.nil /\ opts.Options # NilValue /\ IsCommandProvider(opts.Options)

\* C15: once the global flags are parsed, a non-nil BeforeFunc is called
\* exactly once, first of all host functions and before the command is
\* resolved or a listing printed, whatever the outcome of the run; the
\* provider's Commands is called once, after BeforeFunc and before
\* Options.Func; a command it returns is resolved by its name in that call.
C15_HookOrder ==
    /\ (PastBefore /\ ~opts.nil /\ opts.BeforeFunc)
            => /\ Cardinality(Index("BeforeFunc")) = 1
               /\ calls[1].call = "BeforeFunc"
    /\ (PastGlobals /\ (pc \in {"before", "commands"} \/ exit = "before"))
            => (cmd = 0 /\ ~HasListing /\ ~FuncInvoked /\ ~HandlerInvoked)
    /\ (PastCommands /\ HasProvider)
            => /\ Cardinality(Index("Commands")) = 1
               /\ \A i \in Index("Commands") :
                    /\ \A j \in Index("BeforeFunc") : j < i
                    /\ \A j \in Index("Func") \cup Index("handler") : i < j
    /\ (PastResolve /\ rem # <<>> /\ rem[1] # sHelp)
            => \A i \in 1..Len(commands) :
                    (commands[i].Name = rem[1] /\ \A j \in 1..(i - 1) : commands[j].Name # rem[1])
                        => cmd = i

\* both hooks and a provider: the provider's command ada is resolved and
\* the three host functions were called in order
C15_Witness ==
    /\ HasProvider /\ opts.BeforeFunc /\ opts.Func
    /\ rem = <<sAda>> /\ cmd = 2 /\ Selected.Name = sAda
    /\ Len(calls) >= 3
    /\ calls[1].call = "BeforeFunc" /\ calls[2].call = "Commands" /\ calls[3].call = "Func"

\* C16: when BeforeFunc or Options.Func returns an error, RunOpts returns
\* that error, nothing is called after the hook and no handler is called;
\* after an error of BeforeFunc no command is resolved, no listing printed
\* and Options.Func not called.
C16_HookErrors ==
    \A i \in Index("BeforeFunc") \cup Index("Func") :
        calls[i].res # NoErr
            => /\ pc = "done"
               /\ err = calls[i].res
               /\ i = Len(calls)
               /\ ~HandlerInvoked
               /\ calls[i].call = "BeforeFunc"
                    => (cmd = 0 /\ ~HasListing /\ ~FuncInvoked /\ Index("Commands") = {})

\* BeforeFunc failed before a command that exists could be resolved
C16_Witness ==
    /\ exit = "before"
    /\ rem = <<sGreet>>
    /\ calls = <<[call |-> "BeforeFunc", res |-> HostError("BeforeFunc")]>>
    /\ err = HostError("BeforeFunc")

\* the first token that is not the global flag -v is the flag --loud, which
\* no global Options of the model declares
UnknownGlobalFlag ==
    /\ ~opts.nil /\ opts.Options # NilValue
    /\ \E k \in 1..Len(args) : args[k] = sDashDashLoud /\ \A j \in 1..(k - 1) : args[j] = sDashV

\* C17: when the parse of the global flags fails, as it does on a flag the
\* global Options do not declare, RunOpts returns the parser's error and has
\* called no hook, no provider and no handler.
C17_GlobalFlagsFirst ==
    /\ (exit = "globals" /\ err # NoErr)
            => (pc = "done" /\ err.kind \in {"flagError", "flag.ErrHelp"} /\ calls = <<>> /\ cmd = 0)
    /\ (UnknownGlobalFlag /\ pc # "start" /\ exit # "dump")
            => /\ exit = "globals"
               /\ err = FlagError("flag provided but not defined", <<"l", "o", "u", "d">>)
               /\ calls = <<>>

\* -v --loud greet with both hooks set: the first flag was applied, the second
\* refused
C17_Witness ==
    /\ exit = "globals"
    /\ args = <<sDashV, sDashDashLoud, sGreet>>
    /\ ~opts.nil /\ opts.BeforeFunc /\ opts.Func
    /\ err = FlagError("flag provided but not defined", <<"l", "o", "u", "d">>)
    /\ calls = <<>>

\* RunOpts (or the flag package for it) has written the error e to the
\* diagnostic stream; for flag.ErrHelp the flag set's usage stands for it
Written(e) ==
    \E i \in 1..Len(stderr) :
        \/ stderr[i].d = "unknownCommand" /\ e = UnknownCommandError(stderr[i].name)
        \/ stderr[i].d = "noArguments" /\ e = ErrUnusedArguments
        \/ stderr[i].d \in {"flag", "errorRunning", "panic"} /\ e = stderr[i].err
        \/ stderr[i].d = "flagUsage" /\ e = FlagErrHelp

\* C18: every error RunOpts returns, but ErrHelp and ErrNoCommand, has been
\* written to the diagnostic stream when RunOpts returns.
C18_ErrorsPrinted ==
    (pc = "done" /\ err # NoErr /\ err \notin {ErrHelp, ErrNoCommand}) => Written(err)

\* the error e was returned by a hook, or by the handler
ReturnedByHost(e) ==
    \/ \E i \in Index("BeforeFunc") \cup Index("Func") : calls[i].res = e
    \/ \E i \in Index("handler") : ~calls[i].outcome.panic /\ calls[i].outcome.res = <<e>>

\* C19: every error RunOpts returns is ErrNoCommand, ErrHelp,
\* ErrUnusedArguments, an UnknownCommandError, or an error returned by
\* BeforeFunc, by Options.Func or by the handler.
C19_ErrorKinds ==
    (pc = "done" /\ err # NoErr)
        => \/ err \in {ErrNoCommand, ErrHelp, ErrUnusedArguments}
           \/ err.kind = "UnknownCommandError"
           \/ ReturnedByHost(err)

\* C20: Exit gives every result of RunOpts a status: 0 for nil, 2 for
\* ErrHelp, 3 for ErrNoCommand, 4 for ErrUnusedArguments, 1 for every other
\* error.
C20_ExitStatus ==
    /\ (pc = "done" /\ status = <<>>) => Exit(err) \in 0..4
    /\ status # <<>>
            => /\ Len(status) = 1
               /\ (status[1] = 0) <=> (err = NoErr)
               /\ (status[1] = 2) <=> (err = ErrHelp)
               /\ (status[1] = 3) <=> (err = ErrNoCommand)
               /\ (status[1] = 4) <=> (err = ErrUnusedArguments)
               /\ (status[1] = 1) <=> (err \notin {NoErr, ErrHelp, ErrNoCommand, ErrUnusedArguments})
               /\ err.kind \in {"UnknownCommandError", "hostError", "panicError"} => status[1] = 1

\* the process exited with 3 after a run without a command
C20_Witness ==
    /\ status = <<3>>
    /\ err = ErrNoCommand
    /\ exit = "resolve" /\ rem = <<>>

\* the 0-based position of the first declared argument of that name
DeclaredPosition(decl, name) == Min({j \in 1..Len(decl) : decl[j].Name = name}) - 1

\* C21: for a carrier of a command with a declared Argument sequence,
\* String(name) of a declared name does not fail and returns the token at the
\* name's declared position, or the empty string when fewer tokens were
\* given; StringAt(pos) returns the empty string for every pos at or beyond
\* the number of tokens.
C21_StringLookup ==
    result # NilValue
        => /\ (/\ result.call = "String"
               /\ Declared(this.cmd.Args)
               /\ \E j \in 1..Len(this.cmd.Args) : this.cmd.Args[j].Name = result.name)
                => LET i == DeclaredPosition(this.cmd.Args, result.name)
                   IN  /\ ~result.r.panic
                       /\ result.r.out = IF i < Len(this.args) THEN this.args[i + 1] ELSE sEmpty
           /\ (result.call = "StringAt" /\ result.pos >= Len(this.args))
                => (~result.r.panic /\ result.r.out = sEmpty)

\* the second declared argument is asked for and two tokens were given
C21_Witness ==
    /\ result # NilValue /\ result.call = "String"
    /\ Len(this.cmd.Args) = 2 /\ Declared(this.cmd.Args)
    /\ this.cmd.Args[1].Name = ArgName(1) /\ this.cmd.Args[2].Name = ArgName(2)
    /\ result.name = ArgName(2)
    /\ this.args = <<sGreet, sAda>>
    /\ result.r = Returned(sAda)

\* the first field of a struct, in declaration order, that is neither of a
\* supported kind nor a flag.Value; 0 when there is none
FirstOffending(fields) ==
    LET off == {i \in 1..Len(fields) : fields[i].kind \notin SupportedKinds}
    IN  IF off = {} THEN 0 ELSE CHOOSE i \in off : \A j \in off : i <= j

Bound == result # NilValue /\ result.call = "setupOptionsFlags"

\* C22: binding fails with the not-a-pointer condition for a value that is no
\* pointer, with the not-a-structure condition for a pointer to something
\* else than a struct, with an invalid-option-type error naming the first
\* offending field when a field is of no supported kind and no flag.Value;
\* in every other case it succeeds and yields one flag per field, in
\* declaration order.
C22_BindingOutcomes ==
    Bound =>
        LET r == result.r
            fails(kind) == ~r.panic /\ r.err # NoErr /\ r.err.kind = kind
        IN  IF this.ref.kind # "ptr"
            THEN fails("invalidOptions") /\ r.err.what = "must be a pointer"
            ELSE IF this.ref.elem # "struct"
            THEN fails("invalidOptions") /\ r.err.what = "not a struct"
            ELSE IF FirstOffending(this.ref.fields) # 0
            THEN /\ fails("invalidOptionType")
                 /\ r.err.field = this.ref.fields[FirstOffending(this.ref.fields)].ident
            ELSE /\ ~r.panic
                 /\ r.err = NoErr
                 /\ Len(r.formal) = Len(this.ref.fields)
                 /\ \A i \in 1..Len(r.formal) : r.formal[i].index = i

\* the struct has fields of supported kinds only
OnlySupportedKinds ==
    /\ this.ref.kind = "ptr" /\ this.ref.elem = "struct"
    /\ \A i \in 1..Len(this.ref.fields) : this.ref.fields[i].kind \in SupportedKinds

\* the value field i of the struct holds, as a string
Stringified(i) ==
    LET v == this.vals[i]
    IN  CASE this.ref.fields[i].kind = "bool" ->
                (IF v.b THEN <<"t", "r", "u", "e">> ELSE <<"f", "a", "l", "s", "e">>)
          [] this.ref.fields[i].kind = "int" ->
                (IF v.n = 42 THEN <<"4", "2">> ELSE <<"-", "7">>)
          [] OTHER -> v.s

\* C23: for every struct that has fields of supported kinds only, binding
\* succeeds and the default of each flag is the value its field held at
\* binding time, as a string (a bool holding true gives "true").
C23_DefaultsAreFieldValues ==
    (result # NilValue /\ OnlySupportedKinds) =>
        /\ ~result.r.panic
        /\ result.r.err = NoErr
        /\ IF result.call = "setupOptionsFlags"
           THEN /\ Len(result.r.formal) = Len(this.ref.fields)
                /\ \A i \in 1..Len(this.ref.fields) : result.r.formal[i].def = Stringified(i)
           ELSE /\ Len(result.r.flags) = Len(this.ref.fields)
                /\ \A i \in 1..Len(this.ref.fields) : result.r.flags[i].Default = Stringified(i)

\* the uppercase characters of an identifier after its first character, up
\* to position k
WordStarts(ident, k) == {j \in 2..k : IsUpper(ident[j])}

\* name is ident in lowercase with a '-' before every uppercase character
\* other than the first
IsHyphenated(name, ident) ==
    /\ Len(name) = Len(ident) + Cardinality(WordStarts(ident, Len(ident)))
    /\ \A k \in 1..Len(ident) :
          LET at == k + Cardinality(WordStarts(ident, k))
          IN  /\ name[at] = ToLower(ident[k])
              /\ k \in WordStarts(ident, k) => name[at - 1] = "-"

\* the names flags and help entries are given, with the field of each
NamedFields ==
    IF result = NilValue \/ result.r.panic \/ result.r.err # NoErr THEN {}
    ELSE IF result.call = "setupOptionsFlags"
    THEN {<<result.r.formal[i].name, this.ref.fields[i]>> : i \in 1..Len(result.r.formal)}
    ELSE {<<result.r.flags[i].Name, this.ref.fields[i]>> : i \in 1..Len(result.r.flags)}

Dumped == exit = "dump"

\* C25: with COMMAND_DUMP_HELP set, RunOpts writes the dump and returns nil
\* without dispatching: no flag is parsed into a struct, no command is
\* resolved, and neither BeforeFunc nor Func nor a handler is called.
C25_DumpOnly ==
    Dumped =>
        /\ pc = "done" /\ err = NoErr
        /\ stdout = <<[d |-> "helpDump"]>> /\ stderr = <<>>
        /\ heap = heap0
        /\ cmd = 0 /\ calls = <<>>
        /\ trace = <<"dump">>

\* the dump is written for tokens that begin with a flag of the global
\* Options and name a command, with hooks registered
C25_Witness ==
    /\ Dumped
    /\ ~opts.nil /\ opts.Options # NilValue /\ opts.BeforeFunc /\ opts.Func
    /\ Len(args) >= 2 /\ args[1] = sDashV /\ args[2] = sGreet

\* the steps of RunOpts up to the call of the handler, in the order of the code
StepsToHandler == <<"globals", "before", "commands", "resolve", "prepare", "func", "validate", "invoke">>

\* C26: in one call of RunOpts at most one handler is called, at most once
\* (and not again after it panicked), and only after the parse of the global
\* flags, the resolution of the command, the parse of the command's flags and
\* the validation of the arguments have completed without error, in that
\* order.
C26_HandlerOnce ==
    /\ Cardinality(Index("handler")) <= 1
    /\ HandlerInvoked =>
          LET g == parseGlobalOptions(args, opts, heap0)
              c == Selected
              p == Parse(setupOptionsFlags(c.Name, c.Options, g.heap[c.Options.type]).formal,
                         Tail(rem), g.heap[c.Options.type])
              v == validate(c.Args, cmdArgs)
          IN  /\ trace = StepsToHandler
              /\ pc = "done" /\ exit = "invoke"
              /\ ~g.panic /\ g.err = NoErr /\ rem = g.rem
              /\ cmd # 0 /\ rem # <<>> /\ c.Name = rem[1] /\ LastCall.cmd = c.Name
              /\ IF c.Options # NilValue
                 THEN p.err = NoErr /\ cmdArgs = p.args
                 ELSE cmdArgs = Tail(rem)
              /\ ~v.panic /\ v.err = NoErr
              /\ LastCall.args = cmdArgs

\* a handler that panicked, after flags of both kinds were parsed
C26_Witness ==
    /\ HandlerInvoked
    /\ LastCall.outcome.panic
    /\ args = <<sDashV, sGreet, sDashDashLoud>>

\* the structs RunOpts may write: the global Options, and the Options of the
\* command it resolved
WritableStructs ==
    (IF ~opts.nil /\ opts.Options # NilValue THEN {opts.Options.type} ELSE {})
    \cup (IF cmd # 0 /\ Selected.Options # NilValue THEN {Selected.Options.type} ELSE {})

\* the configuration structs differ from what they were when RunOpts was
\* called only in a struct RunOpts may write, in a field a token of the call
\* gives as a flag; and not in any command's struct when the run ended with
\* help, without command or with an unknown command
StructsFramed ==
    /\ \A t \in DOMAIN heap :
          \A i \in 1..Len(heap[t]) :
              heap[t][i] # heap0[t][i]
                => /\ t \in WritableStructs
                   /\ \E k \in 1..Len(args) : Gives(args[k], FlagNameOf(StructFields(t)[i]))
    /\ EndedResolving
          => \A i \in 1..Len(commands) :
                commands[i].Options # NilValue
                    => heap[commands[i].Options.type] = heap0[commands[i].Options.type]

\* RunOpts leaves every command of the list as it is: it only appends
RegistryKept ==
    /\ Len(commands') >= Len(commands)
    /\ SubSeq(commands', 1, Len(commands)) = commands

\* C27: RunOpts changes nothing in the registry but configuration fields
\* that flag parsing writes: the Name, Help, Usage, Args and Func of every
\* command stay as they are, the configuration struct of every command that
\* is not selected stays as it is, and when the run ends with help, without
\* command or with an unknown command no command's struct has changed (only
\* the global one may have).
C27_RegistryFrame == [](StructsFramed) /\ [][RegistryKept]_vars

\* the provider's command ada ran after the global flag -v: the provider's
\* struct has changed, greet and its struct have not
C27_Witness ==
    /\ exit = "invoke" /\ HandlerInvoked
    /\ Len(commands) = 2 /\ cmd = 2
    /\ heap[ProviderOptsPtrType] # heap0[ProviderOptsPtrType]
    /\ heap[GreetOptsPtrType] = heap0[GreetOptsPtrType]

\* the global flag -v was parsed and the run ended at an unknown command
C27_WitnessUnknown ==
    /\ EndedResolving /\ err.kind = "UnknownCommandError"
    /\ heap[GlobalOptsPtrType] # heap0[GlobalOptsPtrType]

\* the token RunOpts looks a command up by: the token after "help", else the
\* first token left by the global flags
LookedUp == IF rem[1] = sHelp THEN rem[2] ELSE rem[1]

\* C28: the name an UnknownCommandError carries is the token that was looked
\* up, the first token after the global flags or the token after "help",
\* also when global flags come before it.
C28_UnknownNameIsLookedUp ==
    (EndedResolving /\ err.kind = "UnknownCommandError") => err.name = LookedUp

====
